---- MODULE Spec2Model ----
(***************************************************************************)
(* Model of succes.py (Solar Customs AI): the numeric normaliser           *)
(* clean_number, the hierarchy flattener flatten_to_excel_rows, and the    *)
(* batch handler process_files with the Streamlit session state it         *)
(* writes.                                                                 *)
(*                                                                         *)
(* Python values are tagged records.  A Python str is a sequence of        *)
(* one-character strings, so that re.sub, str.strip and float() are        *)
(* computed character by character.  A finite float is an exact rational   *)
(* n/d in lowest terms; the IEEE specials inf, -inf and nan are separate   *)
(* values.  (Binary rounding error of finite floats is not modelled:       *)
(* round(x, 2) and the .2f format round the exact rational half-to-even.   *)
(* The sign of a float zero is not modelled either.)                       *)
(***************************************************************************)
EXTENDS Integers, Sequences, FiniteSets, TLC

VARIABLES
    llm,             \* TRUE iff init_llm() returned a client (module global llm)
    show_dashboard,  \* st.session_state.show_dashboard
    df,              \* st.session_state.df, a sequence of rows
    pc,              \* "page" | "loop" | "finalize": position of the script run
    uploaded_files,  \* the batch handed to process_files
    i,               \* loop index of process_files (0-based, as enumerate)
    all_data,        \* the local accumulator of process_files
    reports,         \* st.error / st.success messages of the current batch run
    calls,           \* indices of the files get_hierarchical_json was called for
    bar,             \* text of the progress bar
    last,            \* how the latest process_files call ended
    ever_stored,     \* TRUE once line 420 has stored a dataset in this session
    cn_in, cn_out,   \* argument and result of a clean_number call
    fl_in, fl_out    \* argument and result of a flatten_to_excel_rows call

vars == <<llm, show_dashboard, df, pc, uploaded_files, i, all_data, reports,
          calls, bar, last, ever_stored, cn_in, cn_out, fl_in, fl_out>>

sessionVars == <<llm, show_dashboard, df, pc, uploaded_files, i, all_data,
                 reports, calls, bar, last, ever_stored>>

----------------------------------------------------------------------------
(* Bounds of the model.                                                    *)

MaxLen == 3        \* longest string handed to clean_number in SpecClean
MaxItems == 2      \* longest items list of an invoice in SpecFlatten
MaxInvoices == 2   \* longest invoices list of a record in SpecFlatten
MaxFiles == 2      \* largest batch handed to process_files

----------------------------------------------------------------------------
(* Python values.                                                          *)

None == [t |-> "None"]
PyBool(b) == [t |-> "bool", b |-> b]
PyInt(n) == [t |-> "int", n |-> n]
\* A Python int too large for a float (json.loads yields one for a long
\* enough digit string).
BigInt == [t |-> "bigint"]
PyStr(s) == [t |-> "str", s |-> s]
PyList(l) == [t |-> "list", l |-> l]
PyDict(d) == [t |-> "dict", d |-> d]

RECURSIVE GCD(_, _)
GCD(a, b) == IF b = 0 THEN a ELSE GCD(b, a % b)

Abs(n) == IF n < 0 THEN -n ELSE n

\* The finite float n/d (d > 0), in lowest terms.
Fin(n, d) ==
    LET g == GCD(Abs(n), d)
    IN  [t |-> "float", k |-> "fin", n |-> n \div g, d |-> d \div g]
Inf == [t |-> "float", k |-> "inf"]
NegInf == [t |-> "float", k |-> "-inf"]
NaN == [t |-> "float", k |-> "nan"]

\* An exception leaving a function.
Raise(e) == [t |-> "raise", e |-> e]
IsRaise(v) == v.t = "raise"

IsFinite(x) == x.t = "float" /\ x.k = "fin"

\* Python truthiness: `not value`.
Falsy(v) ==
    CASE v.t = "None" -> TRUE
      [] v.t = "bool" -> ~v.b
      [] v.t = "int" -> v.n = 0
      [] v.t = "bigint" -> FALSE
      [] v.t = "float" -> v.k = "fin" /\ v.n = 0
      [] v.t = "str" -> v.s = <<>>
      [] v.t = "list" -> v.l = <<>>
      [] v.t = "dict" -> DOMAIN v.d = {}

----------------------------------------------------------------------------
(* clean_number (succes.py 81-86).                                         *)

DigitChars == <<"0", "1", "2", "3", "4", "5", "6", "7", "8", "9">>
IsDigit(c) == \E j \in 1..10 : DigitChars[j] = c
DigitVal(c) == (CHOOSE j \in 1..10 : DigitChars[j] = c) - 1

\* re.sub(r'[^\d.-]', '', s): keep digits, '.' and '-'.
ReSubNonNumeric(s) == SelectSeq(s, LAMBDA c : IsDigit(c) \/ c = "." \/ c = "-")

RECURSIVE DigitsValue(_)
DigitsValue(s) ==
    IF s = <<>> THEN 0
    ELSE 10 * DigitsValue(SubSeq(s, 1, Len(s) - 1)) + DigitVal(s[Len(s)])

RECURSIVE Pow10(_)
Pow10(e) == IF e = 0 THEN 1 ELSE 10 * Pow10(e - 1)

\* The unsigned part of s, for a string of digits, '.' and '-'.
Unsigned(s) == IF s # <<>> /\ s[1] = "-" THEN Tail(s) ELSE s

\* float(s) succeeds on a string of digits, '.' and '-' iff, after an
\* optional leading '-', it has no further '-', at most one '.', and at
\* least one digit.
FloatParses(s) ==
    LET u == Unsigned(s)
    IN  /\ \A j \in 1..Len(u) : u[j] # "-"
        /\ Cardinality({j \in 1..Len(u) : u[j] = "."}) <= 1
        /\ \E j \in 1..Len(u) : IsDigit(u[j])

\* float(s) for a string on which FloatParses holds.
FloatOf(s) ==
    LET u == Unsigned(s)
        digits == SelectSeq(u, IsDigit)
        dots == {j \in 1..Len(u) : u[j] = "."}
        frac == IF dots = {} THEN 0 ELSE Len(u) - (CHOOSE j \in dots : TRUE)
        mag == DigitsValue(digits)
    IN  Fin(IF s[1] = "-" THEN -mag ELSE mag, Pow10(frac))

\* float(value) for an int, bool or float.
ToFloat(v) ==
    CASE v.t = "bool" -> Fin(IF v.b THEN 1 ELSE 0, 1)
      [] v.t = "int" -> Fin(v.n, 1)
      [] v.t = "bigint" -> Raise("OverflowError")
      [] v.t = "float" -> v

\* Line 85-86: try: return float(clean_str) / except: return 0.0
ParseOrZero(clean_str) ==
    IF FloatParses(clean_str) THEN FloatOf(clean_str) ELSE Fin(0, 1)

\* (str(value) of a list or a dict is not modelled: a value that is neither
\* falsy nor a number is a str here.)
clean_number(value) ==
    IF Falsy(value) THEN Fin(0, 1)
    ELSE IF value.t \in {"bool", "int", "bigint", "float"} THEN ToFloat(value)
    ELSE ParseOrZero(ReSubNonNumeric(value.s))

----------------------------------------------------------------------------
(* Float arithmetic used by flatten_to_excel_rows.                         *)

\* x > 0 for a float x (nan compares false).
Gt0(x) == (x.k = "fin" /\ x.n > 0) \/ x.k = "inf"

Sign(x) ==
    CASE x.k = "fin" -> (IF x.n > 0 THEN 1 ELSE IF x.n < 0 THEN -1 ELSE 0)
      [] x.k = "inf" -> 1
      [] x.k = "-inf" -> -1
      [] x.k = "nan" -> 0

\* a / b for floats: ZeroDivisionError on a zero divisor, IEEE otherwise.
Div(a, b) ==
    IF b.k = "fin" /\ b.n = 0 THEN Raise("ZeroDivisionError")
    ELSE IF a.k = "nan" \/ b.k = "nan" THEN NaN
    ELSE IF a.k = "fin" /\ b.k = "fin"
        THEN Fin(a.n * b.d * Sign(b), a.d * Abs(b.n))
    ELSE IF a.k = "fin" THEN Fin(0, 1)
    ELSE IF b.k = "fin" THEN (IF Sign(a) * Sign(b) > 0 THEN Inf ELSE NegInf)
    ELSE NaN

\* x * 100, propagating an exception raised while computing x.
Mul100(x) ==
    IF IsRaise(x) THEN x
    ELSE IF x.k = "fin" THEN Fin(x.n * 100, x.d)
    ELSE x

\* |n/d| in hundredths, rounded half to even.
Hundredths(n, d) ==
    LET num == Abs(n) * 100
        q == num \div d
        r == num % d
    IN  IF 2 * r > d \/ (2 * r = d /\ q % 2 = 1) THEN q + 1 ELSE q

\* round(x, 2): an int stays an int, inf and nan stay what they are.
Round2(x) ==
    IF x.t = "float" /\ x.k = "fin"
    THEN Fin((IF x.n < 0 THEN -1 ELSE 1) * Hundredths(x.n, x.d), 100)
    ELSE x

RECURSIVE NatStr(_)
NatStr(n) ==
    IF n < 10 THEN <<DigitChars[n + 1]>>
    ELSE Append(NatStr(n \div 10), DigitChars[(n % 10) + 1])

\* f"{x:.2f}" as a Python str.
Fmt2(x) ==
    CASE x.t = "int" ->
            PyStr((IF x.n < 0 THEN <<"-">> ELSE <<>>) \o NatStr(Abs(x.n))
                  \o <<".", "0", "0">>)
      [] x.t = "float" /\ x.k = "fin" ->
            LET h == Hundredths(x.n, x.d)
            IN  PyStr((IF x.n < 0 THEN <<"-">> ELSE <<>>) \o NatStr(h \div 100)
                      \o <<".", DigitChars[((h % 100) \div 10) + 1],
                           DigitChars[(h % 10) + 1]>>)
      [] x.t = "float" /\ x.k = "inf" -> PyStr(<<"i", "n", "f">>)
      [] x.t = "float" /\ x.k = "-inf" -> PyStr(<<"-", "i", "n", "f">>)
      [] x.t = "float" /\ x.k = "nan" -> PyStr(<<"n", "a", "n">>)

----------------------------------------------------------------------------
(* flatten_to_excel_rows (succes.py 166-216).                              *)

USD == <<"U", "S", "D">>
DRAWBACK == <<"D", "R", "A", "W", "B", "A", "C", "K">>
Yes == <<"Y", "e", "s">>
No == <<"N", "o">>
EmptyStr == PyStr(<<>>)

Whitespace == {" ", "\t", "\n"}

\* str.strip()
RECURSIVE LStrip(_)
LStrip(s) == IF s # <<>> /\ s[1] \in Whitespace THEN LStrip(Tail(s)) ELSE s
RECURSIVE RStrip(_)
RStrip(s) ==
    IF s # <<>> /\ s[Len(s)] \in Whitespace
    THEN RStrip(SubSeq(s, 1, Len(s) - 1)) ELSE s
Strip(s) == LStrip(RStrip(s))

\* dict.get(k, default) on the mapping d of a dict.
Get(d, k, default) == IF k \in DOMAIN d THEN d[k] ELSE default

\* The values a for-loop over v visits.  Iterating a str visits its
\* characters and iterating a dict its keys: both are strs, and only that
\* matters to the code that follows.
Iterable(v) == v.t \in {"list", "str", "dict"}
Elements(v) ==
    CASE v.t = "list" -> v.l
      [] v.t = "str" -> [j \in 1..Len(v.s) |-> PyStr(<<v.s[j]>>)]
      [] v.t = "dict" -> [j \in 1..Cardinality(DOMAIN v.d) |-> PyStr(<<"k">>)]

\* The first exception among the results rs, if any.
AnyRaise(rs) == \E j \in 1..Len(rs) : IsRaise(rs[j])
FirstRaise(rs) == rs[CHOOSE j \in 1..Len(rs) :
                        IsRaise(rs[j]) /\ \A m \in 1..(j - 1) : ~IsRaise(rs[m])]

\* Line 184 without its guard.
fob_fc_unguarded(fob_inr, ex_rate) == Div(fob_inr, ex_rate)

\* Line 184.
fob_fc(fob_inr, ex_rate) ==
    IF Gt0(ex_rate) THEN Div(fob_inr, ex_rate) ELSE PyInt(0)

\* Lines 186-187.
pct(amt, fob_inr) ==
    IF Gt0(fob_inr) THEN Mul100(Div(amt, fob_inr)) ELSE PyInt(0)

\* Line 176.
currency_of(inv) == Get(inv.d, "Currency of export", PyStr(USD))

\* Line 190: item.get("PRODUCT GROUP", "").strip()
description_of(item) ==
    LET pg == Get(item.d, "PRODUCT GROUP", EmptyStr)
    IN  IF pg.t = "str" THEN PyStr(Strip(pg.s)) ELSE Raise("AttributeError")

\* Lines 197-214.
\* v holds the values computed on lines 175-195.
Row(header, inv, item, v) ==
    PyDict(
    ("Sr. No." :> EmptyStr)
    @@ ("SB NO." :> Get(header.d, "SB NO.", EmptyStr))
    @@ ("S/B Date" :> Get(header.d, "S/B Date", EmptyStr))
    @@ ("LEO Date" :> Get(header.d, "LEO Date", EmptyStr))
    @@ ("Customer Name" :> Get(header.d, "CUSTOMER NAME", EmptyStr))
    @@ ("Final Invoice No." :> Get(inv.d, "FINAL INVOICE NO", EmptyStr))
    @@ ("SB - Solar / Other Goods" :> v.description)
    @@ ("Port Code" :> Get(header.d, "PORT CODE", EmptyStr))
    @@ ("Incoterms" :> Get(inv.d, "INCOTERMS", EmptyStr))
    @@ ("Country" :> Get(header.d, "COUNTRY", EmptyStr))
    @@ ("H.S. ITC (HS Code)" :> Get(item.d, "H.S. Itch code", EmptyStr))
    @@ ("Product Group" :> v.description)
    @@ ("Qty" :> v.qty)
    @@ ("Unit" :> Get(item.d, "Unit", EmptyStr))
    @@ ("FOB Value Declared by Us (S/B) in FC" :> Round2(v.fobfc))
    @@ ("Currency of Export" :> v.currency)
    @@ ("Custom Exchange Rate (in FC)" :> v.ex_rate)
    @@ ("LEO Date Exchange Rate (in FC)" :> v.ex_rate)
    @@ ("FOB Value as per SB in INR" :> Round2(v.fob_inr))
    @@ ("FOB Value as per LEO Ex. Rate in INR" :> Round2(v.fob_inr))
    @@ ("Scheme (ADV/DFIA/Drawback)" :> PyStr(DRAWBACK))
    @@ ("DBK %" :> Fmt2(v.dbk_pct))
    @@ ("Drawback Receivable on FOB" :> Round2(v.dbk_amt))
    @@ ("RoDTEP %" :> Fmt2(v.rodtep_pct))
    @@ ("RoDTEP Receivable" :> Round2(v.rodtep_amt))
    @@ ("RoDTEP Y/N" :> PyStr(IF Gt0(v.rodtep_amt) THEN Yes ELSE No))
    @@ ("Balance RoDTEP" :> Round2(v.rodtep_amt)))

\* The body of the item loop, lines 179-215: the row, or the exception.
FlattenItem(header, inv, ex_rate, currency, item) ==
    IF item.t # "dict" THEN Raise("AttributeError")
    ELSE
    LET fob_inr == clean_number(Get(item.d, "FOB Value as per SB in INR", None))
        qty == clean_number(Get(item.d, "Qty", None))
        dbk_amt == clean_number(Get(item.d, "DRAWBACK Receivable on fob", None))
        rodtep_amt == clean_number(Get(item.d, "RoDTEP RECEIVABLE", None))
        nums == <<fob_inr, qty, dbk_amt, rodtep_amt>>
    IN  IF AnyRaise(nums) THEN FirstRaise(nums)
        ELSE
        LET fobfc == fob_fc(fob_inr, ex_rate)
            rodtep_pct == pct(rodtep_amt, fob_inr)
            dbk_pct == pct(dbk_amt, fob_inr)
            description == description_of(item)
            derived == <<fobfc, rodtep_pct, dbk_pct, description>>
        IN  IF AnyRaise(derived) THEN FirstRaise(derived)
            ELSE IF header.t # "dict" THEN Raise("AttributeError")
            ELSE Row(header, inv, item,
                     [ex_rate |-> ex_rate, currency |-> currency,
                      fob_inr |-> fob_inr, qty |-> qty, dbk_amt |-> dbk_amt,
                      rodtep_amt |-> rodtep_amt, fobfc |-> fobfc,
                      dbk_pct |-> dbk_pct, rodtep_pct |-> rodtep_pct,
                      description |-> description])

\* Line 178: the items the loop visits.  (item_count of line 173 is never
\* read.)
LoopItems(items) == Elements(items)

\* One pass of the invoice loop, lines 172-215: its rows, or the exception.
FlattenInvoice(header, inv) ==
    IF inv.t # "dict" THEN Raise("AttributeError")
    ELSE
    LET items == Get(inv.d, "items", PyList(<<>>))
    IN  IF ~Iterable(items) THEN Raise("TypeError")
        ELSE
        LET ex_rate == clean_number(Get(inv.d, "Custom Exchange Rate in FC", None))
        IN  IF IsRaise(ex_rate) THEN ex_rate
            ELSE
            LET currency == currency_of(inv)
                its == LoopItems(items)
                rows == [j \in 1..Len(its) |->
                            FlattenItem(header, inv, ex_rate, currency, its[j])]
            IN  IF AnyRaise(rows) THEN FirstRaise(rows) ELSE PyList(rows)

RECURSIVE ConcatLists(_)
ConcatLists(ls) ==
    IF ls = <<>> THEN <<>> ELSE Head(ls).l \o ConcatLists(Tail(ls))

\* flatten_to_excel_rows: the list of rows, or the exception it raises.
flatten_to_excel_rows(hierarchical_data) ==
    IF hierarchical_data.t # "dict" THEN Raise("AttributeError")
    ELSE
    LET header == Get(hierarchical_data.d, "shipping_bill_header", PyDict(<<>>))
        invoices == Get(hierarchical_data.d, "invoices", PyList(<<>>))
    IN  IF ~Iterable(invoices) THEN Raise("TypeError")
        ELSE
        LET invs == Elements(invoices)
            per == [j \in 1..Len(invs) |-> FlattenInvoice(header, invs[j])]
        IN  IF AnyRaise(per) THEN FirstRaise(per) ELSE PyList(ConcatLists(per))

----------------------------------------------------------------------------
(* SpecClean: clean_number applied to one input.                           *)

Pending == [t |-> "pending"]

CleanAlphabet == {"1", "0", ".", "-", ",", "N"}

RECURSIVE StringsUpTo(_, _)
StringsUpTo(A, n) ==
    IF n = 0 THEN {<<>>}
    ELSE LET shorter == StringsUpTo(A, n - 1)
         IN  shorter \cup {Append(s, c) : s \in shorter, c \in A}

CleanInputs ==
    {None, PyBool(TRUE), PyBool(FALSE), PyInt(0), PyInt(7), PyInt(-3), BigInt,
     Fin(0, 1), Fin(5, 2), Inf, NegInf, NaN}
    \cup {PyStr(s) : s \in StringsUpTo(CleanAlphabet, MaxLen)}

SessionIdle ==
    /\ llm = TRUE
    /\ show_dashboard = FALSE
    /\ df = <<>>
    /\ pc = "page"
    /\ uploaded_files = <<>>
    /\ i = 0
    /\ all_data = <<>>
    /\ reports = <<>>
    /\ calls = <<>>
    /\ bar = [text |-> "none", file |-> 0]
    /\ last = "none"
    /\ ever_stored = FALSE

InitClean ==
    /\ SessionIdle
    /\ cn_in \in CleanInputs
    /\ cn_out = Pending
    /\ fl_in = None
    /\ fl_out = Pending

CallCleanNumber ==
    /\ cn_out = Pending
    /\ cn_out' = clean_number(cn_in)
    /\ UNCHANGED <<sessionVars, cn_in, fl_in, fl_out>>

NextClean == CallCleanNumber

SpecClean == InitClean /\ [][NextClean]_vars

----------------------------------------------------------------------------
(* Sample oracle output: items, invoices, headers, hierarchical records.   *)

\* Scenario 1 of the specification: fob 830000, qty 100, drawback 8300,
\* RoDTEP 4150; the description carries surrounding blanks.
ItemFull ==
    ("H.S. Itch code" :> PyStr(<<"8", "5">>))
    @@ ("PRODUCT GROUP" :> PyStr(<<" ", "P", "V", " ">>))
    @@ ("Qty" :> PyInt(100))
    @@ ("Unit" :> PyStr(<<"N", "O", "S">>))
    @@ ("FOB Value as per SB in INR" :> PyInt(830000))
    @@ ("DRAWBACK Receivable on fob" :> PyInt(8300))
    @@ ("RoDTEP RECEIVABLE" :> PyInt(4150))

\* No key at all.
ItemEmpty == [k \in {} |-> None]

\* Absent numerics (null, empty string), no FOB value but receivables
\* given, one of them as a formatted string.
ItemNoFob ==
    ("PRODUCT GROUP" :> PyStr(<<"x">>))
    @@ ("Qty" :> EmptyStr)
    @@ ("FOB Value as per SB in INR" :> None)
    @@ ("DRAWBACK Receivable on fob" :> PyInt(5))
    @@ ("RoDTEP RECEIVABLE" :>
            PyStr(<<"R", "s", "1", ",", "2", "3", "4", ".", "5", "0">>))

\* Text fields present but null.
ItemNullText ==
    ("H.S. Itch code" :> None)
    @@ ("PRODUCT GROUP" :> PyStr(<<"x">>))
    @@ ("Unit" :> None)
    @@ ("FOB Value as per SB in INR" :> PyStr(<<"1", ".", "5">>))
    @@ ("Qty" :> Fin(5, 2))

\* A null description.
ItemNullGroup ==
    ("PRODUCT GROUP" :> None)
    @@ ("FOB Value as per SB in INR" :> PyInt(10))

\* A negative FOB value and a non-finite receivable.
ItemNegFob ==
    ("PRODUCT GROUP" :> PyStr(<<"y">>))
    @@ ("FOB Value as per SB in INR" :> PyInt(-10))
    @@ ("DRAWBACK Receivable on fob" :> PyInt(5))
    @@ ("RoDTEP RECEIVABLE" :> NaN)

ItemSamples ==
    {PyDict(ItemFull), PyDict(ItemEmpty), PyDict(ItemNoFob),
     PyDict(ItemNullText), PyDict(ItemNullGroup), PyDict(ItemNegFob)}

\* Invoice fields other than items.
HeadFull ==
    ("FINAL INVOICE NO" :> PyStr(<<"I", "1">>))
    @@ ("INCOTERMS" :> PyStr(<<"F", "O", "B">>))
    @@ ("Currency of export" :> PyStr(<<"E", "U", "R">>))
    @@ ("Custom Exchange Rate in FC" :> Fin(83, 1))
HeadEmpty == [k \in {} |-> None]
HeadNull ==
    ("FINAL INVOICE NO" :> None)
    @@ ("Currency of export" :> None)
    @@ ("Custom Exchange Rate in FC" :> PyStr(<<"0">>))
HeadBlank ==
    ("FINAL INVOICE NO" :> PyStr(<<"I", "2">>))
    @@ ("Currency of export" :> EmptyStr)
    @@ ("Custom Exchange Rate in FC" :> PyStr(<<"-", "2">>))

Invoice(head, items) == PyDict(head @@ ("items" :> items))

RECURSIVE SeqsUpTo(_, _)
SeqsUpTo(S, n) ==
    IF n = 0 THEN {<<>>}
    ELSE LET shorter == SeqsUpTo(S, n - 1)
         IN  shorter \cup {Append(q, x) : q \in shorter, x \in S}

\* Every items list up to MaxItems under the full invoice fields; the other
\* invoice fields with a few items lists; invoices without an "items" key.
RichInvoices ==
    {Invoice(HeadFull, PyList(q)) : q \in SeqsUpTo(ItemSamples, MaxItems)}
    \cup {Invoice(h, PyList(q)) :
            h \in {HeadEmpty, HeadNull, HeadBlank},
            q \in {<<>>, <<PyDict(ItemFull)>>, <<PyDict(ItemNoFob)>>}}
    \cup {PyDict(h) : h \in {HeadFull, HeadEmpty, HeadNull, HeadBlank}}

PlainInvoices ==
    {Invoice(HeadFull, PyList(<<>>)),
     Invoice(HeadFull, PyList(<<PyDict(ItemFull)>>)),
     Invoice(HeadEmpty, PyList(<<PyDict(ItemFull), PyDict(ItemNoFob)>>))}

InvoiceLists ==
    {<<>>} \cup
    {<<r>> \o q : r \in RichInvoices,
                  q \in SeqsUpTo(PlainInvoices, MaxInvoices - 1)}

HeaderFull ==
    ("SB NO." :> PyStr(<<"S", "1">>))
    @@ ("S/B Date" :> PyStr(<<"d", "1">>))
    @@ ("LEO Date" :> PyStr(<<"d", "2">>))
    @@ ("PORT CODE" :> PyStr(<<"P", "1">>))
    @@ ("CUSTOMER NAME" :> PyStr(<<"B", "1">>))
    @@ ("COUNTRY" :> PyStr(<<"C", "1">>))
    @@ ("SB_TYPE" :> PyStr(<<"T", "1">>))
HeaderNull ==
    ("SB NO." :> None) @@ ("CUSTOMER NAME" :> None)

Record(header, invoices) ==
    PyDict(("shipping_bill_header" :> header) @@ ("invoices" :> invoices))

\* Oracle output of the agreed shape (fields possibly absent or null).
ShapedRecords ==
    {Record(PyDict(HeaderFull), PyList(l)) : l \in InvoiceLists}
    \cup {Record(PyDict(HeaderNull), PyList(<<r>>)) : r \in PlainInvoices}
    \cup {PyDict("invoices" :> PyList(<<r>>)) : r \in PlainInvoices}
    \cup {PyDict("shipping_bill_header" :> PyDict(HeaderFull))}

\* Truthy JSON of some other shape.
MalformedRecords ==
    {PyList(<<PyInt(1)>>),
     PyStr(<<"o", "k">>),
     Record(PyDict(HeaderFull), None),
     Record(PyDict(HeaderFull), PyStr(<<"x">>)),
     Record(PyDict(HeaderFull), PyList(<<None>>)),
     Record(PyDict(HeaderFull), PyList(<<Invoice(HeadFull, None)>>)),
     Record(PyDict(HeaderFull),
            PyList(<<Invoice(HeadFull, PyList(<<PyStr(<<"x">>)>>))>>)),
     Record(None, PyList(<<Invoice(HeadFull, PyList(<<PyDict(ItemFull)>>))>>)),
     Record(PyDict(HeaderFull),
            PyList(<<Invoice(HeadFull,
                             PyList(<<PyDict("Qty" :> BigInt)>>))>>))}

FlattenInputs == ShapedRecords \cup MalformedRecords

----------------------------------------------------------------------------
(* SpecFlatten: flatten_to_excel_rows applied to one record.               *)

InitFlatten ==
    /\ SessionIdle
    /\ cn_in = None
    /\ cn_out = Pending
    /\ fl_in \in FlattenInputs
    /\ fl_out = Pending

CallFlatten ==
    /\ fl_out = Pending
    /\ fl_out' = flatten_to_excel_rows(fl_in)
    /\ UNCHANGED <<sessionVars, cn_in, cn_out, fl_in>>

NextFlatten == CallFlatten

SpecFlatten == InitFlatten /\ [][NextFlatten]_vars

----------------------------------------------------------------------------
(* process_files and the session state (succes.py 283-286, 345-348,        *)
(* 391-428).                                                               *)

\* Lines 20-48.  (The en dash of the seventh column name is written as a
\* hyphen here and in Row.)
FINAL_COLUMNS ==
    <<"Sr. No.", "SB NO.", "S/B Date", "LEO Date", "Customer Name",
      "Final Invoice No.", "SB - Solar / Other Goods", "Port Code",
      "Incoterms", "Country", "H.S. ITC (HS Code)", "Product Group", "Qty",
      "Unit", "FOB Value Declared by Us (S/B) in FC", "Currency of Export",
      "Custom Exchange Rate (in FC)", "LEO Date Exchange Rate (in FC)",
      "FOB Value as per SB in INR", "FOB Value as per LEO Ex. Rate in INR",
      "Scheme (ADV/DFIA/Drawback)", "DBK %", "Drawback Receivable on FOB",
      "RoDTEP %", "RoDTEP Receivable", "RoDTEP Y/N", "Balance RoDTEP">>

\* An uploaded file: the text extract_pdf_text returns for it, and what
\* llm.invoke followed by json.loads yields for that text: a value, or an
\* exception.
File(text, resp) == [text |-> text, resp |-> resp]

SomeText == PyStr(<<"t">>)

TwoRows ==
    Record(PyDict(HeaderFull),
           PyList(<<Invoice(HeadFull,
                            PyList(<<PyDict(ItemFull), PyDict(ItemNoFob)>>))>>))
TwoInvoices ==
    Record(PyDict(HeaderNull),
           PyList(<<Invoice(HeadEmpty, PyList(<<PyDict(ItemFull)>>)),
                    Invoice(HeadBlank, PyList(<<PyDict(ItemNegFob)>>))>>))

FileSamples ==
    {File(EmptyStr, TwoRows),
     File(SomeText, Raise("JSONDecodeError")),
     File(SomeText, PyList(<<>>)),
     File(SomeText, PyList(<<PyInt(1)>>)),
     File(SomeText, Record(PyDict(HeaderFull), PyList(<<>>))),
     File(SomeText,
          Record(PyDict(HeaderFull), PyList(<<Invoice(HeadFull, PyList(<<>>))>>))),
     File(SomeText, TwoRows),
     File(SomeText, TwoInvoices),
     File(SomeText,
          Record(PyDict(HeaderFull),
                 PyList(<<Invoice(HeadFull, PyList(<<PyDict(ItemNullGroup)>>))>>)))}

Batches == SeqsUpTo(FileSamples, MaxFiles) \ {<<>>}

\* A message shown to the user and the files it names.
Report(kind, names) == [kind |-> kind, names |-> names]

Progress(text, file) == [text |-> text, file |-> file]

\* Lines 157-164: the parsed value, or None after an st.error that quotes
\* the exception and nothing else.
get_hierarchical_json(f) == IF ~llm \/ IsRaise(f.resp) THEN None ELSE f.resp
ParseReports(f) ==
    IF llm /\ IsRaise(f.resp) THEN <<Report("AI parsing failed", {})>> ELSE <<>>

\* Line 406 with the guard dropped.
HasTextAlways(text) == TRUE

\* Line 406: if text:
HasText(text) == ~Falsy(text)

\* Lines 415-417: the frame of the rows, projected to the final columns that
\* occur in it.
Restrict(d, keys) == [k \in DOMAIN d \cap keys |-> d[k]]
ProjectColumns(rows) ==
    LET columns == UNION {DOMAIN rows[r].d : r \in 1..Len(rows)}
        safe_columns == {FINAL_COLUMNS[c] : c \in 1..Len(FINAL_COLUMNS)}
                        \cap columns
    IN  [r \in 1..Len(rows) |-> PyDict(Restrict(rows[r].d, safe_columns))]

\* Line 418 numbering from 0: range(len(df)).
AssignSrNoFromZero(rows) ==
    [r \in 1..Len(rows) |-> PyDict(("Sr. No." :> PyInt(r - 1)) @@ rows[r].d)]

\* Line 418: df["Sr. No."] = range(1, len(df) + 1)
AssignSrNo(rows) ==
    [r \in 1..Len(rows) |-> PyDict(("Sr. No." :> PyInt(r)) @@ rows[r].d)]

Init ==
    /\ llm \in BOOLEAN
    /\ show_dashboard = FALSE
    /\ df = <<>>
    /\ pc = "page"
    /\ uploaded_files = <<>>
    /\ i = 0
    /\ all_data = <<>>
    /\ reports = <<>>
    /\ calls = <<>>
    /\ bar = Progress("none", 0)
    /\ last = "none"
    /\ ever_stored = FALSE
    /\ cn_in = None
    /\ cn_out = Pending
    /\ fl_in = None
    /\ fl_out = Pending

\* Lines 335-337 and 393-395: the button on the upload page, with the model
\* unavailable: whatever the batch, an error is shown and nothing else
\* happens.
ProcessFilesUnavailable ==
    /\ pc = "page"
    /\ ~show_dashboard
    /\ ~llm
    /\ Batches # {}
    /\ reports' = <<Report("Cannot process files", {})>>
    /\ last' = "unavailable"
    /\ UNCHANGED <<llm, show_dashboard, df, pc, uploaded_files, i, all_data,
                   calls, bar, ever_stored, cn_in, cn_out, fl_in, fl_out>>

\* Lines 335-337 and 397-399: the button on the upload page starts a batch.
ProcessFilesStart ==
    /\ pc = "page"
    /\ ~show_dashboard
    /\ llm
    /\ \E files \in Batches : uploaded_files' = files
    /\ pc' = "loop"
    /\ i' = 0
    /\ all_data' = <<>>
    /\ reports' = <<>>
    /\ calls' = <<>>
    /\ bar' = Progress("Initializing...", 0)
    /\ last' = "running"
    /\ UNCHANGED <<llm, show_dashboard, df, ever_stored, cn_in, cn_out, fl_in,
                   fl_out>>

\* Lines 401-410: one pass of the loop over the files.  An exception that
\* leaves flatten_to_excel_rows leaves process_files too: the script run
\* ends there, without any st.error or st.success of the program, and the
\* session state is as it was.
ProcessFile ==
    /\ pc = "loop"
    /\ i < Len(uploaded_files)
    /\ LET f == uploaded_files[i + 1]
           json_data == get_hierarchical_json(f)
           rows == flatten_to_excel_rows(json_data)
       IN  /\ bar' = Progress("Processing file", i + 1)
           /\ IF ~HasText(f.text)
              THEN /\ UNCHANGED <<calls, reports, all_data>>
                   /\ i' = i + 1
                   /\ pc' = IF i + 1 < Len(uploaded_files) THEN "loop" ELSE "finalize"
                   /\ last' = last
              ELSE /\ calls' = Append(calls, i + 1)
                   /\ reports' = reports \o ParseReports(f)
                   /\ IF Falsy(json_data)
                      THEN /\ all_data' = all_data
                           /\ i' = i + 1
                           /\ pc' = IF i + 1 < Len(uploaded_files)
                                    THEN "loop" ELSE "finalize"
                           /\ last' = last
                      ELSE IF IsRaise(rows)
                      THEN /\ all_data' = all_data
                           /\ i' = i
                           /\ pc' = "page"
                           /\ last' = "raised"
                      ELSE /\ all_data' = all_data \o rows.l
                           /\ i' = i + 1
                           /\ pc' = IF i + 1 < Len(uploaded_files)
                                    THEN "loop" ELSE "finalize"
                           /\ last' = last
    /\ UNCHANGED <<llm, show_dashboard, df, uploaded_files, ever_stored, cn_in,
                   cn_out, fl_in, fl_out>>

\* Lines 412-428 without the test of line 414: the result is stored whether
\* or not it has rows.
FinalizeAlwaysStores ==
    /\ pc = "finalize"
    /\ bar' = Progress("Finalizing data...", 0)
    /\ df' = AssignSrNo(ProjectColumns(all_data))
    /\ show_dashboard' = TRUE
    /\ ever_stored' = TRUE
    /\ reports' = Append(reports, Report("Success", {}))
    /\ pc' = "page"
    /\ last' = "finished"
    /\ UNCHANGED <<llm, uploaded_files, i, all_data, calls, cn_in, cn_out,
                   fl_in, fl_out>>

\* Lines 412-428.
Finalize ==
    /\ pc = "finalize"
    /\ bar' = Progress("Finalizing data...", 0)
    /\ IF all_data # <<>>
       THEN /\ df' = AssignSrNo(ProjectColumns(all_data))
            /\ show_dashboard' = TRUE
            /\ ever_stored' = TRUE
            /\ reports' = Append(reports, Report("Success", {}))
       ELSE /\ reports' = Append(reports, Report("No data could be extracted", {}))
            /\ show_dashboard' = FALSE
            /\ df' = df
            /\ ever_stored' = ever_stored
    /\ pc' = "page"
    /\ last' = "finished"
    /\ UNCHANGED <<llm, uploaded_files, i, all_data, calls, cn_in, cn_out,
                   fl_in, fl_out>>

\* Lines 345-348 without line 347: the flag is cleared and the dataset is
\* kept.
ResetKeepsDataset ==
    /\ pc = "page"
    /\ show_dashboard
    /\ show_dashboard' = FALSE
    /\ df' = df
    /\ last' = "none"
    /\ UNCHANGED <<llm, pc, uploaded_files, i, all_data, reports, calls, bar,
                   ever_stored, cn_in, cn_out, fl_in, fl_out>>

\* Lines 345-348: the Reset button of the dashboard page.
Reset ==
    /\ pc = "page"
    /\ show_dashboard
    /\ show_dashboard' = FALSE
    /\ df' = <<>>
    /\ last' = "none"
    /\ UNCHANGED <<llm, pc, uploaded_files, i, all_data, reports, calls, bar,
                   ever_stored, cn_in, cn_out, fl_in, fl_out>>

Next ==
    \/ ProcessFilesUnavailable
    \/ ProcessFilesStart
    \/ ProcessFile
    \/ Finalize
    \/ Reset

Spec == Init /\ [][Next]_vars

----------------------------------------------------------------------------
(* Properties of clean_number.                                             *)

\* The inputs the specification calls absent or unparseable: falsy values,
\* and strings that float() rejects once stripped.
ZeroInput(v) ==
    \/ Falsy(v)
    \/ (v.t = "str" /\ ~FloatParses(ReSubNonNumeric(v.s)))

\* C6: clean_number is total: on every input it returns a finite float and
\* never raises, and absent, falsy and unparseable inputs give 0.0.
C6_CleanNumberTotal ==
    cn_out # Pending =>
        /\ IsFinite(cn_out)
        /\ (ZeroInput(cn_in) => cn_out = Fin(0, 1))

----------------------------------------------------------------------------
(* Properties of flatten_to_excel_rows.                                    *)

InvoicesOf(h) == Elements(Get(h.d, "invoices", PyList(<<>>)))
ItemsOf(inv) == Elements(Get(inv.d, "items", PyList(<<>>)))

\* The (invoice, item) pairs of a record in document order.
RECURSIVE PairsOf(_)
PairsOf(invs) ==
    IF invs = <<>> THEN <<>>
    ELSE LET its == ItemsOf(Head(invs))
         IN  [j \in 1..Len(its) |-> <<Head(invs), its[j]>>]
             \o PairsOf(Tail(invs))

RECURSIVE ExpectedRows(_)
ExpectedRows(invs) ==
    IF invs = <<>> THEN 0
    ELSE (IF Len(ItemsOf(Head(invs))) > 0 THEN Len(ItemsOf(Head(invs))) ELSE 1)
         + ExpectedRows(Tail(invs))

Flattened == fl_out # Pending /\ fl_out.t = "list"

\* C1: the number of emitted rows is the sum over the invoices of
\* max(1, number of items); an invoice without items still emits one row.
C1_RowCount ==
    Flattened => Len(fl_out.l) = ExpectedRows(InvoicesOf(fl_in))

IsZero(x) ==
    \/ (x.t = "int" /\ x.n = 0)
    \/ (x.t = "float" /\ x.k = "fin" /\ x.n = 0)

ZeroPct == PyStr(<<"0", ".", "0", "0">>)

RateOf(inv) == clean_number(Get(inv.d, "Custom Exchange Rate in FC", None))
FobOf(item) == clean_number(Get(item.d, "FOB Value as per SB in INR", None))
DbkOf(item) == clean_number(Get(item.d, "DRAWBACK Receivable on fob", None))

\* C7: flattening is division-safe: a rate that is not positive gives a
\* foreign-currency FOB value of 0, a FOB value that is not positive gives
\* "0.00" for both percentages, and no division by zero is performed.
C7_DivisionSafe ==
    /\ fl_out # Raise("ZeroDivisionError")
    /\ Flattened =>
        LET pairs == PairsOf(InvoicesOf(fl_in))
        IN  /\ Len(fl_out.l) = Len(pairs)
            /\ \A r \in 1..Len(pairs) :
                LET row == fl_out.l[r].d
                IN  /\ ~Gt0(RateOf(pairs[r][1])) =>
                            IsZero(row["FOB Value Declared by Us (S/B) in FC"])
                    /\ ~Gt0(FobOf(pairs[r][2])) =>
                            /\ row["DBK %"] = ZeroPct
                            /\ row["RoDTEP %"] = ZeroPct

\* C7 witness: one flattened record holds an item with a positive FOB value
\* under a rate of 0, and an item without FOB value but with a drawback
\* amount.
C7_Witness ==
    /\ Flattened
    /\ LET pairs == PairsOf(InvoicesOf(fl_in))
       IN  /\ \E r \in 1..Len(pairs) :
                ~Gt0(RateOf(pairs[r][1])) /\ Gt0(FobOf(pairs[r][2]))
           /\ \E r \in 1..Len(pairs) :
                ~Gt0(FobOf(pairs[r][2])) /\ Gt0(DbkOf(pairs[r][2]))

NumericFields ==
    {<<"Qty", "Qty">>,
     <<"FOB Value as per SB in INR", "FOB Value as per SB in INR">>,
     <<"DRAWBACK Receivable on fob", "Drawback Receivable on FOB">>,
     <<"RoDTEP RECEIVABLE", "RoDTEP Receivable">>}
ItemTextFields ==
    {<<"H.S. Itch code", "H.S. ITC (HS Code)">>,
     <<"PRODUCT GROUP", "Product Group">>,
     <<"Unit", "Unit">>}
InvoiceTextFields ==
    {<<"FINAL INVOICE NO", "Final Invoice No.">>, <<"INCOTERMS", "Incoterms">>}
HeaderTextFields ==
    {<<"SB NO.", "SB NO.">>, <<"S/B Date", "S/B Date">>,
     <<"LEO Date", "LEO Date">>, <<"CUSTOMER NAME", "Customer Name">>,
     <<"PORT CODE", "Port Code">>, <<"COUNTRY", "Country">>}

AbsentText(d, k) == k \notin DOMAIN d \/ d[k] = None
AbsentNumber(d, k) == k \notin DOMAIN d \/ d[k] = None \/ d[k] = EmptyStr

\* C8: missing data never fails the flattening nor drops a row: an absent
\* numeric field (missing, null, empty) is emitted as 0 and an absent text
\* field (missing or null) of the header, the invoice or the item is
\* emitted as the empty string.
C8_AbsentFieldsNormalised ==
    (fl_out # Pending /\ fl_in \in ShapedRecords) =>
        /\ fl_out.t = "list"
        /\ LET pairs == PairsOf(InvoicesOf(fl_in))
               header == Get(fl_in.d, "shipping_bill_header", PyDict(<<>>)).d
           IN  /\ Len(fl_out.l) = Len(pairs)
               /\ \A r \in 1..Len(pairs) :
                    LET row == fl_out.l[r].d
                        inv == pairs[r][1].d
                        item == pairs[r][2].d
                    IN  /\ \A f \in NumericFields :
                            AbsentNumber(item, f[1]) => row[f[2]] = Fin(0, 1)
                        /\ \A f \in ItemTextFields :
                            AbsentText(item, f[1]) => row[f[2]] = EmptyStr
                        /\ \A f \in InvoiceTextFields :
                            AbsentText(inv, f[1]) => row[f[2]] = EmptyStr
                        /\ \A f \in HeaderTextFields :
                            AbsentText(header, f[1]) => row[f[2]] = EmptyStr

\* C10: 'Currency of Export' is the invoice's export currency when that is
\* present and non-empty, and "USD" when it is missing, null or empty.
C10_CurrencyDefault ==
    Flattened =>
        LET pairs == PairsOf(InvoicesOf(fl_in))
        IN  /\ Len(fl_out.l) = Len(pairs)
            /\ \A r \in 1..Len(pairs) :
                LET inv == pairs[r][1].d
                    given == Get(inv, "Currency of export", None)
                IN  fl_out.l[r].d["Currency of Export"] =
                        IF given = None \/ given = EmptyStr
                        THEN PyStr(USD) ELSE given

----------------------------------------------------------------------------
(* Properties of process_files.                                            *)

\* process_files ran to its end (lines 412-428 included).
BatchDone == pc = "page" /\ last = "finished"
\* process_files ended, by its last line or by an exception.
BatchEnded == pc = "page" /\ last \in {"finished", "raised"}

\* What a file is to contribute: the flattened rows of its record; nothing
\* when it has no text, when the oracle response does not parse, or when
\* the parsed value is not a record that can be flattened.
Contribution(f) ==
    IF f.text = EmptyStr \/ IsRaise(f.resp) \/ Falsy(f.resp) THEN <<>>
    ELSE LET rows == flatten_to_excel_rows(f.resp)
         IN  IF IsRaise(rows) THEN <<>> ELSE rows.l

RECURSIVE Contributions(_)
Contributions(files) ==
    IF files = <<>> THEN <<>>
    ELSE Contribution(Head(files)) \o Contributions(Tail(files))

\* The (header, invoice, item) triples behind Contributions, in document,
\* invoice and item order.
SourcesOf(f) ==
    IF Contribution(f) = <<>> THEN <<>>
    ELSE LET pairs == PairsOf(InvoicesOf(f.resp))
         IN  [j \in 1..Len(pairs) |->
                <<Get(f.resp.d, "shipping_bill_header", PyDict(<<>>)),
                  pairs[j][1], pairs[j][2]>>]

RECURSIVE Sources(_)
Sources(files) ==
    IF files = <<>> THEN <<>>
    ELSE SourcesOf(Head(files)) \o Sources(Tail(files))

WithoutSrNo(rows) ==
    [r \in 1..Len(rows) |-> Restrict(rows[r].d, DOMAIN rows[r].d \ {"Sr. No."})]

\* C2: after a batch that produced N >= 1 rows, the stored dataset is the
\* concatenation of the flattened rows in document, invoice and item
\* order, and the row at position r carries Sr. No. r.
C2_OrderAndSrNo ==
    (BatchDone /\ all_data # <<>>) =>
        LET expected == Contributions(uploaded_files)
            sources == Sources(uploaded_files)
        IN  /\ Len(df) = Len(expected)
            /\ Len(df) = Len(sources)
            /\ WithoutSrNo(df) = WithoutSrNo(expected)
            /\ \A r \in 1..Len(df) :
                /\ df[r].d["Sr. No."] = PyInt(r)
                /\ df[r].d["SB NO."] = Get(sources[r][1].d, "SB NO.", EmptyStr)
                /\ df[r].d["Final Invoice No."] =
                        Get(sources[r][2].d, "FINAL INVOICE NO", EmptyStr)
                /\ df[r].d["H.S. ITC (HS Code)"] =
                        Get(sources[r][3].d, "H.S. Itch code", EmptyStr)
                /\ df[r].d["Qty"] = clean_number(Get(sources[r][3].d, "Qty", None))

\* C2 witness: a stored dataset of rows from two files, one of them with
\* two invoices, whose first and last rows differ.
C2_Witness ==
    /\ BatchDone
    /\ Len(df) >= 3
    /\ \E a, b \in 1..Len(uploaded_files) :
        /\ a < b
        /\ Contribution(uploaded_files[a]) # <<>>
        /\ Len(InvoicesOf(uploaded_files[b].resp)) = 2
        /\ Contribution(uploaded_files[b]) # <<>>
    /\ WithoutSrNo(df)[1] # WithoutSrNo(df)[Len(df)]

\* C3: a file whose oracle response does not parse or has the wrong shape
\* contributes no rows and does not abort the batch: once process_files
\* has ended, the rows of every other file are in the stored dataset.
C3_FailuresIsolated ==
    BatchEnded => WithoutSrNo(df) = WithoutSrNo(Contributions(uploaded_files))

\* An oracle response that does not parse, or is not a record that can be
\* flattened.
Malformed(f) ==
    \/ IsRaise(f.resp)
    \/ f.resp.t # "dict"
    \/ IsRaise(flatten_to_excel_rows(f.resp))

\* C4: for each file whose oracle response is malformed, exactly one
\* failure report names that file.
C4_FailureNamesFile ==
    BatchEnded =>
        \A c \in 1..Len(calls) :
            Malformed(uploaded_files[calls[c]]) =>
                Cardinality({n \in 1..Len(reports) :
                                calls[c] \in reports[n].names}) = 1

CallSet == {calls[c] : c \in 1..Len(calls)}

----------------------------------------------------------------------------
(* Properties of the session state.                                        *)

\* C11: after any sequence of batch runs (successful, empty, failed, or with
\* the model unavailable) and Resets, the dashboard flag is true exactly
\* when the stored dataset has rows: no dataset of an earlier batch stays
\* stored while the upload page is shown.
C11_DashboardIffDataset == show_dashboard <=> (df # <<>>)

\* C11 witness: the upload page after a batch without rows has finished, in
\* a session in which an earlier batch had stored a dataset.
C11_Witness ==
    /\ ever_stored
    /\ BatchDone
    /\ all_data = <<>>
    /\ ~show_dashboard
    /\ df = <<>>

====
